---- MODULE Spec2Model ----
(***************************************************************************)
(* Model of tools/nova_bridge.py: the local HTTP bridge that turns         *)
(* /break-ritual and /reentry requests into Nova ACT prompts.              *)
(*                                                                         *)
(* Python str values that the code inspects character by character (url,   *)
(* note) are sequences of one-character strings; Join turns them into the  *)
(* text embedded in a prompt.  A prompt is the sequence of its lines, and  *)
(* a line is the sequence of its literal and interpolated segments.        *)
(* Time is counted in ticks of 1/60 second.                                *)
(***************************************************************************)
EXTENDS Integers, Sequences, FiniteSets, TLC

(* ------------------------------ bounds -------------------------------- *)
NumRequests == 2
MaxNoteLen == 3
SecondsSlack == 5

(* ------------------------- program constants -------------------------- *)
MinSeconds == 30
MaxSeconds == 900
DefaultSeconds == 90
MaxKindLen == 64
MinUrlLen == 1
MaxUrlLen == 2048
MinDuration == 30
MaxDuration == 300
SleepCapTicks == 120
SleepFloorTicks == 6
ReentrySleepTicks == 6
DefaultKind == "breathing"
DefaultSelectorHint == "textarea, [contenteditable=true]"
DefaultStartPage == "https://docs.google.com/"
ApiKeyName == "NOVA_ACT_API_KEY"

Reqs == 1..NumRequests
Min(a, b) == IF a < b THEN a ELSE b
Max(a, b) == IF a > b THEN a ELSE b

(* ------------------------------ strings ------------------------------- *)
\* characters str.strip() removes (the representable part of Python's set)
Whitespace == {" ", "\t", "\n", "\r", "\f"}

RECURSIVE Join(_)
Join(s) == IF s = <<>> THEN "" ELSE Head(s) \o Join(Tail(s))

RECURSIVE LStrip(_)
LStrip(s) == IF s # <<>> /\ Head(s) \in Whitespace THEN LStrip(Tail(s)) ELSE s

RECURSIVE RStrip(_)
RStrip(s) ==
  IF s # <<>> /\ s[Len(s)] \in Whitespace THEN RStrip(SubSeq(s, 1, Len(s) - 1)) ELSE s

\* str.strip()
Strip(s) == RStrip(LStrip(s))

\* str.replace("\n", " ")
ReplaceNewlines(s) == [i \in 1..Len(s) |-> IF s[i] = "\n" THEN " " ELSE s[i]]

RECURSIVE SeqsUpTo(_, _)
SeqsUpTo(A, n) ==
  IF n = 0 THEN {<<>>}
  ELSE LET shorter == SeqsUpTo(A, n - 1)
       IN shorter \cup {Append(s, c) : s \in shorter, c \in A}

(* --------------------------- request models --------------------------- *)
ValidationError == [error |-> "ValidationError"]
IsError(model) == "error" \in DOMAIN model

\* seconds: Annotated[int, Field(ge=30, le=900)]
SecondsField_offbyone(seconds) == seconds > MinSeconds /\ seconds < MaxSeconds
SecondsField(seconds) == seconds >= MinSeconds /\ seconds <= MaxSeconds

BreakRitualRequest(raw) ==
  LET seconds == IF "seconds" \in DOMAIN raw THEN raw.seconds ELSE DefaultSeconds
      kind == IF "kind" \in DOMAIN raw THEN raw.kind ELSE DefaultKind
      mute_slack == IF "mute_slack" \in DOMAIN raw THEN raw.mute_slack ELSE TRUE
  IN IF SecondsField(seconds) /\ Len(kind) <= MaxKindLen
     THEN [seconds |-> seconds, kind |-> kind, mute_slack |-> mute_slack]
     ELSE ValidationError

ReentryRequest(raw) ==
  IF "url" \notin DOMAIN raw THEN ValidationError
  ELSE LET note == IF "note" \in DOMAIN raw THEN raw.note ELSE <<>>
           selector_hint == IF "selector_hint" \in DOMAIN raw
                            THEN raw.selector_hint ELSE DefaultSelectorHint
       IN IF Len(raw.url) >= MinUrlLen /\ Len(raw.url) <= MaxUrlLen
          THEN [url |-> raw.url, note |-> note, selector_hint |-> selector_hint]
          ELSE ValidationError

(* --------------------------- prompt composer -------------------------- *)
_format_seconds(seconds) ==
  LET minutes == seconds \div 60
      remaining == seconds % 60
  IN IF minutes # 0 /\ remaining # 0
     THEN ToString(minutes) \o "m " \o ToString(remaining) \o "s"
     ELSE IF minutes # 0
          THEN ToString(minutes) \o " minute" \o (IF minutes # 1 THEN "s" ELSE "")
          ELSE ToString(seconds) \o " second" \o (IF seconds # 1 THEN "s" ELSE "")

_strip_note_spaces_only(note) ==
  LET RECURSIVE LSp(_)
      LSp(s) == IF s # <<>> /\ Head(s) = " " THEN LSp(Tail(s)) ELSE s
  IN IF LSp(note) = <<>> THEN <<>> ELSE ReplaceNewlines(LSp(note))
_strip_note(note) ==
  LET stripped == Strip(note)
  IN IF stripped = <<>> THEN <<>> ELSE Strip(ReplaceNewlines(stripped))

\* max(30, min(payload.seconds, 300)) in the breathing-page URL
EmbeddedDuration_nocap(seconds) == Max(MinDuration, seconds)
EmbeddedDuration(seconds) == Max(MinDuration, Min(seconds, MaxDuration))

BreakUrlPrefix == "1. Open a new tab and navigate to https://box-breathing.com/?duration="
BreakReplyPrefix == "4. Reply in chat with: \"Break timer started for "
MuteSlackLine ==
  <<"If Slack is open in another tab, pause Slack notifications for the next hour before starting the timer.">>
InsertNotePrefix ==
  "5. Insert this note verbatim so the user remembers their next step: \""

_describe_break_prompt(payload) ==
  LET duration == _format_seconds(payload.seconds)
      prompt ==
        << <<"You are a focus coach helping a writer in Google Docs take a short reset.">>,
           <<BreakUrlPrefix, ToString(EmbeddedDuration(payload.seconds)), ".">>,
           <<"2. Start the guided breathing session immediately and let it run in the foreground.">>,
           <<"3. If a confirmation appears, acknowledge it.">>,
           <<BreakReplyPrefix, duration, ".\"">>,
           <<"Keep the session active until the timer completes. Do not close the tab or switch away.">> >>
  IN IF payload.mute_slack THEN Append(prompt, MuteSlackLine) ELSE prompt

_describe_reentry_prompt(payload) ==
  LET safe_note == _strip_note(payload.note)
      base ==
        << <<"Help the user resume work after their break.">>,
           <<"1. Navigate to ", Join(payload.url), ".">>,
           <<"2. Wait for the page to finish loading.">>,
           <<"3. Focus the best matching element for the CSS selector \"", payload.selector_hint, "\".">>,
           <<"4. Place the text caret at the end of the existing content without submitting the document.">> >>
      withNote == IF safe_note # <<>>
                  THEN Append(base, <<InsertNotePrefix, Join(safe_note), "\".">>)
                  ELSE base
  IN Append(withNote, <<"6. Reply in chat with: \"Ready to resume.\"">>)

(* -------------------------------- state ------------------------------- *)
VARIABLES
  NovaAct,        \* module global: "class" when the SDK import succeeded, "None" otherwise
  environ,        \* os.environ restricted to NOVA_ACT_API_KEY
  endpoint,       \* per request: route it was posted to
  raw,            \* per request: JSON body as posted
  payload,        \* per request: validated request model
  pc,             \* per request: position of its handler coroutine
  seen,           \* per request: SDK and credential as they were when the handler checked
  prompt,         \* per request: prompt argument of _invoke_nova
  starting_page,  \* per request: starting_page argument of _invoke_nova
  sleep,          \* per request: ticks handed to asyncio.sleep (0: never slept)
  runner,         \* per request: position of _runner
  thread,         \* per request: where _runner executes
  session,        \* per request: the NovaAct context manager of _runner
  acts,           \* per request: calls of nova.act, in order
  exc,            \* per request: SDK call that raised inside _runner ("none": nothing raised)
  response,       \* per request: HTTP status code and body
  pureOp,         \* function applied by the function-level specification
  pureArg,        \* its argument
  pureRes         \* its result

reqVars == <<endpoint, raw, payload, pc, seen, prompt, starting_page, sleep,
             runner, thread, session, acts, exc, response>>
pureVars == <<pureOp, pureArg, pureRes>>
vars == <<NovaAct, environ, reqVars, pureVars>>

NoSession == [state |-> "none", opened |-> 0, kwargs |-> <<>>]
NoResponse == [code |-> 0, body |-> <<>>]
NoEnv == [n \in {} |-> ""]

\* os.getenv("NOVA_ACT_API_KEY") is truthy
KeyTruthy(env) == ApiKeyName \in DOMAIN env /\ env[ApiKeyName] # ""

_nova_available_sdk_only(sdk, env) == sdk # "None"
_nova_available(sdk, env) ==
  IF sdk = "None" THEN FALSE
  ELSE IF ~KeyTruthy(env) THEN FALSE
  ELSE TRUE

\* _run_in_executor: loop.run_in_executor(None, fn) runs fn on a pool thread
_run_in_executor_inline == "loop"
_run_in_executor == "worker"

\* the event loop thread is occupied by a blocking call
LoopBlocked ==
  \E r \in Reqs : thread[r] = "loop"
                  /\ runner[r] \in {"submitted", "in_with", "exit_ok", "exit_exc"}

\* kwargs = {"starting_page": starting_page} if starting_page else {}
NoKwargs == [k \in {} |-> ""]
RunnerKwargs_dropped(page) == NoKwargs
RunnerKwargs(page) == IF page # "" THEN [starting_page |-> page] ELSE NoKwargs

\* except Exception: logger.warning(...); raise
RunnerExcept_swallow == "returned"
RunnerExcept == "raised"

\* leaving the with block calls NovaAct.__exit__ whether or not act raised;
\* __exit__ releases the session and does not suppress the exception
WithExit_leak(raised) == IF raised THEN "open" ELSE "released"
WithExit(raised) == "released"

\* asyncio.sleep(min(2, max(0.1, payload.seconds / 60))), in ticks
BreakSleepTicks(seconds) == Min(SleepCapTicks, Max(SleepFloorTicks, seconds))

OkNova == [status |-> "ok", nova |-> TRUE]
OkSkipped == [status |-> "ok", nova |-> FALSE, skipped |-> "nova_unavailable"]

Init ==
  /\ NovaAct \in {"class", "None"}
  /\ environ \in {NoEnv, [n \in {ApiKeyName} |-> "k"]}
  /\ endpoint = [r \in Reqs |-> "none"]
  /\ raw = [r \in Reqs |-> <<>>]
  /\ payload = [r \in Reqs |-> <<>>]
  /\ pc = [r \in Reqs |-> "idle"]
  /\ seen = [r \in Reqs |-> <<>>]
  /\ prompt = [r \in Reqs |-> <<>>]
  /\ starting_page = [r \in Reqs |-> ""]
  /\ sleep = [r \in Reqs |-> 0]
  /\ runner = [r \in Reqs |-> "none"]
  /\ thread = [r \in Reqs |-> "none"]
  /\ session = [r \in Reqs |-> NoSession]
  /\ acts = [r \in Reqs |-> <<>>]
  /\ exc = [r \in Reqs |-> "none"]
  /\ response = [r \in Reqs |-> NoResponse]
  /\ pureOp = "none"
  /\ pureArg = <<>>
  /\ pureRes = <<>>

(* ----------------------------- environment ---------------------------- *)
\* os.environ is process-wide mutable state: any thread of the process, the
\* executor threads running the SDK included, may write it at any time
SetKey(v) ==
  /\ environ' = [n \in {ApiKeyName} |-> v]
  /\ environ' # environ
  /\ UNCHANGED <<NovaAct, reqVars, pureVars>>

UnsetKey ==
  /\ environ # NoEnv
  /\ environ' = NoEnv
  /\ UNCHANGED <<NovaAct, reqVars, pureVars>>

(* ------------------------------ handlers ------------------------------ *)
\* requests are numbered in the order the server accepts them
NextToArrive(r) == pc[r] = "idle" /\ \A q \in Reqs : q < r => pc[q] # "idle"

Reject(r, route, body, code, detail) ==
  /\ endpoint' = [endpoint EXCEPT ![r] = route]
  /\ raw' = [raw EXCEPT ![r] = body]
  /\ pc' = [pc EXCEPT ![r] = "rejected"]
  /\ response' = [response EXCEPT ![r] = [code |-> code, body |-> [detail |-> detail]]]
  /\ UNCHANGED <<payload, seen, prompt, starting_page, sleep>>

\* the handler body from its availability check to its first suspension
Dispatch(r, route, body, model, composed, page, ticks) ==
  /\ endpoint' = [endpoint EXCEPT ![r] = route]
  /\ raw' = [raw EXCEPT ![r] = body]
  /\ payload' = [payload EXCEPT ![r] = model]
  /\ seen' = [seen EXCEPT ![r] = [sdk |-> NovaAct, env |-> environ]]
  /\ IF _nova_available(NovaAct, environ)
     THEN /\ prompt' = [prompt EXCEPT ![r] = composed]
          /\ starting_page' = [starting_page EXCEPT ![r] = page]
          /\ pc' = [pc EXCEPT ![r] = "invoking"]
          /\ UNCHANGED sleep
     ELSE /\ sleep' = [sleep EXCEPT ![r] = ticks]
          /\ pc' = [pc EXCEPT ![r] = "sleeping"]
          /\ UNCHANGED <<prompt, starting_page>>
  /\ UNCHANGED response

\* POST /break-ritual: body validation, then trigger_break_ritual up to its await
BreakRitual(r, bodies) ==
  /\ NextToArrive(r)
  /\ ~LoopBlocked
  /\ \E body \in bodies :
       LET model == BreakRitualRequest(body)
       IN IF IsError(model)
          THEN Reject(r, "/break-ritual", body, 422, "seconds, kind: out of bounds")
          ELSE Dispatch(r, "/break-ritual", body, model,
                        _describe_break_prompt(model), DefaultStartPage,
                        BreakSleepTicks(model.seconds))
  /\ UNCHANGED <<NovaAct, environ, runner, thread, session, acts, exc, pureVars>>

\* POST /reentry: body validation, then trigger_reentry up to its await
Reentry(r, bodies) ==
  /\ NextToArrive(r)
  /\ ~LoopBlocked
  /\ \E body \in bodies :
       LET model == ReentryRequest(body)
       IN IF IsError(model)
          THEN Reject(r, "/reentry", body, 422, "url: missing or out of bounds")
          ELSE IF model.url = <<>>
               THEN Reject(r, "/reentry", body, 400, "Missing url.")
               ELSE Dispatch(r, "/reentry", body, model,
                             _describe_reentry_prompt(model), Join(model.url),
                             ReentrySleepTicks)
  /\ UNCHANGED <<NovaAct, environ, runner, thread, session, acts, exc, pureVars>>

\* _invoke_nova: its own availability check, then the hand-over to the executor;
\* when it returns early the handler goes on to return {"status": "ok", "nova": True}
InvokeNova(r) ==
  /\ pc[r] = "invoking"
  /\ ~LoopBlocked
  /\ IF ~_nova_available(NovaAct, environ)
     THEN /\ pc' = [pc EXCEPT ![r] = "done"]
          /\ response' = [response EXCEPT ![r] = [code |-> 200, body |-> OkNova]]
          /\ UNCHANGED <<runner, thread>>
     ELSE /\ pc' = [pc EXCEPT ![r] = "awaiting"]
          /\ runner' = [runner EXCEPT ![r] = "submitted"]
          /\ thread' = [thread EXCEPT ![r] = _run_in_executor]
          /\ UNCHANGED response
  /\ UNCHANGED <<NovaAct, environ, endpoint, raw, payload, seen, prompt,
                 starting_page, sleep, session, acts, exc, pureVars>>

\* asyncio.sleep elapsed: the handler returns the fallback envelope
WakeUp(r) ==
  /\ pc[r] = "sleeping"
  /\ ~LoopBlocked
  /\ pc' = [pc EXCEPT ![r] = "done"]
  /\ response' = [response EXCEPT ![r] = [code |-> 200, body |-> OkSkipped]]
  /\ UNCHANGED <<NovaAct, environ, endpoint, raw, payload, seen, prompt,
                 starting_page, sleep, runner, thread, session, acts, exc, pureVars>>

\* the executor future completed: the handler returns, or the exception
\* of _runner propagates out of it and the server answers 500
Resume(r) ==
  /\ pc[r] = "awaiting"
  /\ runner[r] \in {"returned", "raised"}
  /\ ~LoopBlocked
  /\ IF runner[r] = "returned"
     THEN /\ pc' = [pc EXCEPT ![r] = "done"]
          /\ response' = [response EXCEPT ![r] = [code |-> 200, body |-> OkNova]]
     ELSE /\ pc' = [pc EXCEPT ![r] = "failed"]
          /\ response' = [response EXCEPT ![r] =
                            [code |-> 500, body |-> [detail |-> "Internal Server Error"]]]
  /\ UNCHANGED <<NovaAct, environ, endpoint, raw, payload, seen, prompt,
                 starting_page, sleep, runner, thread, session, acts, exc, pureVars>>

(* ------------------------------- _runner ------------------------------ *)
\* NovaAct(**kwargs).__enter__(): the session opens, or the SDK raises
RunnerEnter(r) ==
  /\ runner[r] = "submitted"
  /\ \/ /\ session' = [session EXCEPT ![r] =
                         [state |-> "open", opened |-> session[r].opened + 1,
                          kwargs |-> RunnerKwargs(starting_page[r])]]
        /\ runner' = [runner EXCEPT ![r] = "in_with"]
        /\ UNCHANGED exc
     \/ /\ runner' = [runner EXCEPT ![r] = RunnerExcept]
        /\ exc' = [exc EXCEPT ![r] = "NovaAct"]
        /\ UNCHANGED session
  /\ UNCHANGED <<NovaAct, environ, endpoint, raw, payload, pc, seen, prompt,
                 starting_page, sleep, thread, acts, response, pureVars>>

\* nova.act(prompt): returns or raises
RunnerAct(r) ==
  /\ runner[r] = "in_with"
  /\ acts' = [acts EXCEPT ![r] =
                Append(@, [prompt |-> prompt[r], session |-> session[r].state])]
  /\ \E raised \in BOOLEAN :
       /\ runner' = [runner EXCEPT ![r] = IF raised THEN "exit_exc" ELSE "exit_ok"]
       /\ exc' = [exc EXCEPT ![r] = IF raised THEN "act" ELSE @]
  /\ UNCHANGED <<NovaAct, environ, endpoint, raw, payload, pc, seen, prompt,
                 starting_page, sleep, thread, session, response, pureVars>>

\* end of the with block; a pending exception reaches the except clause
RunnerExit(r) ==
  /\ runner[r] \in {"exit_ok", "exit_exc"}
  /\ session' = [session EXCEPT ![r].state = WithExit(runner[r] = "exit_exc")]
  /\ runner' = [runner EXCEPT ![r] =
                  IF runner[r] = "exit_exc" THEN RunnerExcept ELSE "returned"]
  /\ UNCHANGED <<NovaAct, environ, endpoint, raw, payload, pc, seen, prompt,
                 starting_page, sleep, thread, acts, exc, response, pureVars>>

(* --------------------------- request bodies --------------------------- *)
UrlA == <<"h", "t", "t", "p", ":", "/", "/", "a">>
UrlB == <<"h", "t", "t", "p", ":", "/", "/", "b">>
LongKind == "01234567890123456789012345678901234567890123456789012345678901234"
NoteAlphabet == {"a", " ", "\n", "\t"}
AllSeconds == (0 - SecondsSlack)..(MaxSeconds + SecondsSlack)

\* concurrent specification: valid bodies with distinct prompts
MainBreakBodies == {<<>>, [seconds |-> 301, mute_slack |-> FALSE]}
MainReentryBodies == {[url |-> UrlA], [url |-> UrlB, note |-> <<" ", "a", "\n", "b">>]}

\* single-request specification: every seconds value, blank and missing urls
SingleBreakBodies ==
  {[seconds |-> s, mute_slack |-> m] : s \in AllSeconds, m \in BOOLEAN}
    \cup {<<>>, [seconds |-> DefaultSeconds, kind |-> LongKind]}
SingleReentryBodies ==
  {[url |-> u, note |-> n] : u \in {<<>>, <<" ">>, <<" ", "\t">>, <<"\n">>, UrlA},
                             n \in {<<>>, <<"a">>}}
    \cup {[note |-> <<"a">>]}

\* liveness specification: the default bodies
LiveBreakBodies == {<<>>}
LiveReentryBodies == {[url |-> UrlA]}

(* --------------------------- specifications --------------------------- *)
Next ==
  \/ \E r \in Reqs : BreakRitual(r, MainBreakBodies)
  \/ \E r \in Reqs : Reentry(r, MainReentryBodies)
  \/ \E r \in Reqs : InvokeNova(r)
  \/ \E r \in Reqs : WakeUp(r)
  \/ \E r \in Reqs : Resume(r)
  \/ \E r \in Reqs : RunnerEnter(r)
  \/ \E r \in Reqs : RunnerAct(r)
  \/ \E r \in Reqs : RunnerExit(r)
  \/ \E v \in {"", "k"} : SetKey(v)
  \/ UnsetKey

Spec == Init /\ [][Next]_vars

SingleNext ==
  \/ BreakRitual(1, SingleBreakBodies)
  \/ Reentry(1, SingleReentryBodies)
  \/ InvokeNova(1)
  \/ WakeUp(1)
  \/ Resume(1)
  \/ RunnerEnter(1)
  \/ RunnerAct(1)
  \/ RunnerExit(1)
  \/ \E v \in {"", "k"} : SetKey(v)
  \/ UnsetKey

SingleSpec == Init /\ [][SingleNext]_vars

LiveNext ==
  \/ \E r \in Reqs : BreakRitual(r, LiveBreakBodies)
  \/ \E r \in Reqs : Reentry(r, LiveReentryBodies)
  \/ \E r \in Reqs : InvokeNova(r)
  \/ \E r \in Reqs : WakeUp(r)
  \/ \E r \in Reqs : Resume(r)
  \/ \E r \in Reqs : RunnerEnter(r)
  \/ \E r \in Reqs : RunnerAct(r)
  \/ \E r \in Reqs : RunnerExit(r)
  \/ \E v \in {"", "k"} : SetKey(v)
  \/ UnsetKey

\* the event loop runs every coroutine that is ready; nothing obliges the
\* backend, a client or the environment to act
LiveSpec ==
  /\ Init
  /\ [][LiveNext]_vars
  /\ \A r \in Reqs : WF_vars(InvokeNova(r)) /\ WF_vars(WakeUp(r)) /\ WF_vars(Resume(r))

(* ---------------------- function-level specification ------------------ *)
PureInit ==
  /\ NovaAct = "None"
  /\ environ = NoEnv
  /\ endpoint = [r \in Reqs |-> "none"]
  /\ raw = [r \in Reqs |-> <<>>]
  /\ payload = [r \in Reqs |-> <<>>]
  /\ pc = [r \in Reqs |-> "idle"]
  /\ seen = [r \in Reqs |-> <<>>]
  /\ prompt = [r \in Reqs |-> <<>>]
  /\ starting_page = [r \in Reqs |-> ""]
  /\ sleep = [r \in Reqs |-> 0]
  /\ runner = [r \in Reqs |-> "none"]
  /\ thread = [r \in Reqs |-> "none"]
  /\ session = [r \in Reqs |-> NoSession]
  /\ acts = [r \in Reqs |-> <<>>]
  /\ exc = [r \in Reqs |-> "none"]
  /\ response = [r \in Reqs |-> NoResponse]
  /\ pureOp = "none"
  /\ pureRes = <<>>
  /\ \/ pureArg \in {[seconds |-> s, kind |-> DefaultKind, mute_slack |-> m] :
                       s \in AllSeconds, m \in BOOLEAN}
     \/ pureArg \in {[url |-> UrlA, note |-> n, selector_hint |-> DefaultSelectorHint] :
                       n \in SeqsUpTo(NoteAlphabet, MaxNoteLen)}

PureBreakPrompt ==
  /\ pureOp = "none"
  /\ "seconds" \in DOMAIN pureArg
  /\ pureOp' = "_describe_break_prompt"
  /\ pureRes' = _describe_break_prompt(pureArg)
  /\ UNCHANGED <<NovaAct, environ, reqVars, pureArg>>

PureReentryPrompt ==
  /\ pureOp = "none"
  /\ "note" \in DOMAIN pureArg
  /\ pureOp' = "_describe_reentry_prompt"
  /\ pureRes' = _describe_reentry_prompt(pureArg)
  /\ UNCHANGED <<NovaAct, environ, reqVars, pureArg>>

PureStripNote ==
  /\ pureOp = "none"
  /\ "note" \in DOMAIN pureArg
  /\ pureOp' = "_strip_note"
  /\ pureRes' = _strip_note(pureArg.note)
  /\ UNCHANGED <<NovaAct, environ, reqVars, pureArg>>

PureStripNoteAgain ==
  /\ pureOp = "_strip_note"
  /\ pureOp' = "_strip_note twice"
  /\ pureRes' = [once |-> pureRes, twice |-> _strip_note(pureRes)]
  /\ UNCHANGED <<NovaAct, environ, reqVars, pureArg>>

PureNext ==
  \/ PureBreakPrompt
  \/ PureReentryPrompt
  \/ PureStripNote
  \/ PureStripNoteAgain

PureSpec == PureInit /\ [][PureNext]_vars

(* ------------------------------- claims ------------------------------- *)
Answered(r) == response[r].code = 200
BackendInvoked(r) == session[r].opened > 0 /\ acts[r] # <<>>
BackendUntouched(r) ==
  /\ runner[r] = "none"
  /\ session[r].state = "none"
  /\ session[r].opened = 0
  /\ acts[r] = <<>>
CapabilityMissing(r) ==
  \/ seen[r].sdk = "None"
  \/ ApiKeyName \notin DOMAIN seen[r].env
  \/ seen[r].env[ApiKeyName] = ""
HandlerChecked(r) == pc[r] \notin {"idle", "rejected"}
AllWhitespace(s) == \A i \in 1..Len(s) : s[i] \in {" ", "\t", "\n", "\r", "\f"}

\* C1: every 200 response has nova = TRUE exactly when a session was opened
\* and act was called for that request, also when the credential changes
\* between the handler's check and the check inside _invoke_nova.
C1_NovaIffInvoked ==
  \A r \in Reqs : Answered(r) => (response[r].body.nova <=> BackendInvoked(r))

\* C2: a request whose handler found the SDK or the credential missing is
\* answered {status: "ok", nova: false, skipped: "nova_unavailable"} without
\* any backend invocation, and no response with nova = TRUE carries skipped.
C2_UnavailableSkips ==
  /\ \A r \in Reqs :
       HandlerChecked(r) /\ CapabilityMissing(r) =>
         /\ BackendUntouched(r)
         /\ pc[r] \in {"sleeping", "done"}
         /\ pc[r] = "done" =>
              /\ response[r].code = 200
              /\ DOMAIN response[r].body = {"status", "nova", "skipped"}
              /\ response[r].body.status = "ok"
              /\ response[r].body.nova = FALSE
              /\ response[r].body.skipped = "nova_unavailable"
  /\ \A r \in Reqs :
       Answered(r) /\ response[r].body.nova => "skipped" \notin DOMAIN response[r].body

C2_Witness ==
  \E r1, r2 \in Reqs :
    /\ endpoint[r1] = "/break-ritual" /\ endpoint[r2] = "/reentry"
    /\ pc[r1] = "done" /\ pc[r2] = "done"
    /\ CapabilityMissing(r1) /\ CapabilityMissing(r2)
    /\ seen[r1].sdk = "class"

\* C3: once the backend has raised for a request, the request never gets a
\* 200 envelope, never sleeps on the fallback path, opens at most one
\* session and calls act at most once, and finishes only as a 500 failure.
C3_RaiseFails ==
  \A r \in Reqs :
    exc[r] # "none" =>
      /\ response[r].code # 200
      /\ sleep[r] = 0
      /\ pc[r] \in {"awaiting", "failed"}
      /\ pc[r] = "failed" => response[r].code = 500
      /\ session[r].opened <= 1
      /\ Len(acts[r]) <= 1

C3_Witness ==
  \E r \in Reqs : exc[r] = "act" /\ pc[r] = "failed" /\ response[r].code = 500

\* C4: a re-entry request whose url is missing, empty or whitespace-only is
\* rejected with a 4xx status and never reaches the backend.
C4_BlankUrlRejected ==
  \A r \in Reqs :
    (endpoint[r] = "/reentry"
       /\ ("url" \notin DOMAIN raw[r] \/ AllWhitespace(raw[r].url))) =>
      /\ pc[r] = "rejected"
      /\ response[r].code \in 400..499
      /\ BackendUntouched(r)

\* C5: a break-ritual request (other fields valid) is accepted exactly when
\* seconds is in 30..900; an accepted value reaches the handler unchanged, a
\* rejected one gets a 4xx status with neither backend invocation nor sleep.
C5_SecondsRange ==
  \A r \in Reqs :
    (endpoint[r] = "/break-ritual"
       /\ "seconds" \in DOMAIN raw[r] /\ "kind" \notin DOMAIN raw[r]) =>
      IF raw[r].seconds \in 30..900
      THEN /\ pc[r] # "rejected"
           /\ payload[r].seconds = raw[r].seconds
      ELSE /\ pc[r] = "rejected"
           /\ response[r].code \in 400..499
           /\ sleep[r] = 0
           /\ BackendUntouched(r)

C5_Witness ==
  \E r \in Reqs :
    /\ endpoint[r] = "/break-ritual"
    /\ "seconds" \in DOMAIN raw[r]
    /\ raw[r].seconds = 900
    /\ pc[r] = "done"
    /\ payload[r].seconds = 900

\* C6: a request that is not itself waiting for a running backend call
\* (it sleeps on the fallback path, is about to invoke, or its worker has
\* finished) eventually gets its outcome, whatever the backend calls of
\* other requests do, including never returning.
C6_OthersProceed ==
  \A r \in Reqs :
    /\ (pc[r] = "sleeping") ~> (pc[r] = "done" /\ response[r].code = 200)
    /\ (pc[r] = "invoking") ~> (pc[r] # "invoking")
    /\ (pc[r] = "awaiting" /\ runner[r] \in {"returned", "raised"})
         ~> (pc[r] \in {"done", "failed"})

C6_Witness ==
  \E r1, r2 \in Reqs :
    /\ r1 # r2
    /\ pc[r1] = "awaiting" /\ runner[r1] = "in_with"
    /\ pc[r2] = "sleeping"

\* C7: every act call made for a request carries the prompt composed from
\* that request, in a session started on "https://docs.google.com/" for a
\* break ritual and on the request's own url for a re-entry.
C7_OwnPrompt ==
  \A r \in Reqs :
    \A i \in 1..Len(acts[r]) :
      /\ "starting_page" \in DOMAIN session[r].kwargs
      /\ IF endpoint[r] = "/break-ritual"
         THEN /\ acts[r][i].prompt = _describe_break_prompt(payload[r])
              /\ session[r].kwargs.starting_page = "https://docs.google.com/"
         ELSE /\ acts[r][i].prompt = _describe_reentry_prompt(payload[r])
              /\ session[r].kwargs.starting_page = Join(raw[r].url)

C7_Witness ==
  \E r1, r2 \in Reqs :
    /\ endpoint[r1] = "/break-ritual" /\ endpoint[r2] = "/reentry"
    /\ pc[r1] = "awaiting" /\ pc[r2] = "awaiting"
    /\ acts[r1] # <<>> /\ acts[r2] # <<>>
    /\ acts[r1][1].prompt # acts[r2][1].prompt

\* C8: the duration in the breathing-page URL of the break prompt is
\* seconds clamped into 30..300 (30 below, seconds inside, 300 above),
\* while the label of the same prompt renders the unclamped seconds.
C8_ClampedDuration ==
  pureOp = "_describe_break_prompt" =>
    LET s == pureArg.seconds
        embedded == pureRes[2][2]
        label == pureRes[5][2]
    IN /\ \E d \in 30..300 : embedded = ToString(d)
       /\ s < 30 => embedded = "30"
       /\ s \in 30..300 => embedded = ToString(s)
       /\ s > 300 => embedded = "300"
       /\ label = _format_seconds(s)
       /\ s > 300 => label # _format_seconds(300)

C8_Witness ==
  /\ pureOp = "_describe_break_prompt"
  /\ pureArg.seconds = 900
  /\ pureRes[2][2] = "300"
  /\ pureRes[5][2] = "15 minutes"

\* C9: sanitizing a sanitized note changes nothing, an all-whitespace note
\* sanitizes to the empty string, and the re-entry prompt of such a note has
\* no "Insert this note" line.
C9_StripIdempotent ==
  /\ pureOp = "_strip_note twice" => pureRes.twice = pureRes.once
  /\ (pureOp = "_strip_note" /\ AllWhitespace(pureArg.note)) => pureRes = <<>>
  /\ (pureOp = "_describe_reentry_prompt" /\ AllWhitespace(pureArg.note)) =>
       \A i \in 1..Len(pureRes) : pureRes[i][1] # InsertNotePrefix

C9_Witness ==
  /\ pureOp = "_strip_note twice"
  /\ pureRes.once # <<>>
  /\ pureRes.once # pureArg.note
  /\ \E i \in 1..Len(pureArg.note) : pureArg.note[i] = "\n"

\* C10: a request that has its outcome, and a worker that has finished,
\* hold no open session, whether act returned or raised; act is only
\* called while the request's session is open.
C10_SessionReleased ==
  \A r \in Reqs :
    /\ pc[r] \in {"done", "failed"} => session[r].state # "open"
    /\ runner[r] \in {"returned", "raised"} => session[r].state # "open"
    /\ \A i \in 1..Len(acts[r]) : acts[r][i].session = "open"

C10_Witness ==
  \E r \in Reqs :
    /\ exc[r] = "act"
    /\ pc[r] = "failed"
    /\ session[r].opened = 1
    /\ session[r].state = "released"

====
